---- MODULE Spec2Model ----
(***************************************************************************)
(* Model of the Playwright verification scripts of datatex-tauri.          *)
(*                                                                         *)
(* Every script is one function: it launches a browser, opens a page, runs *)
(* a fixed list of page operations and closes the browser.  The page is    *)
(* the external application, so each page operation draws its outcome from *)
(* what the page can answer: how many elements a selector matches and      *)
(* whether the matched element is visible / actionable.                    *)
(* The body of each script is written as a sequence of instructions, one   *)
(* per page call of the source, with the source line of the call.          *)
(***************************************************************************)
EXTENDS Integers, Sequences, FiniteSets, TLC

VARIABLES script, mode, pc, ip, browser, pw, exc, exitStatus, nav, viewport,
          dir, files, printed, hist, last, tried, failShots, shotFailed,
          ran, writers, strats, resolved

vars == <<script, mode, pc, ip, browser, pw, exc, exitStatus, nav, viewport,
          dir, files, printed, hist, last, tried, failShots, shotFailed,
          ran, writers, strats, resolved>>

(* Largest number of elements a selector is let to match on the page. *)
MaxMatch == 4

(* Largest number of scripts run one after another on one output tree. *)
MaxRuns == 2

Scripts == {"verify_settings", "verify_preamble", "verify_icons", "verify_table",
            "verify_responsive_toolbar", "verify_changes", "verify_toolbar"}

(***************************************************************************)
(* Instructions.  ok / no / ex are the control flow of the source around   *)
(* the call: ok = instruction after success (0: the next one), no = where  *)
(* an is_visible() answer of False goes (0: the next one, -1: return),     *)
(* ex = where an exception of the call goes (0: to the enclosing           *)
(* try/except of the function if there is one, else out of the function;   *)
(* -1: a local except that returns; k > 0: a local except whose body is    *)
(* instruction k).                                                         *)
(***************************************************************************)
Step(line, op, tgt, pick, idx, path) ==
  [line |-> line, op |-> op, tgt |-> tgt, pick |-> pick, idx |-> idx,
   path |-> path, ok |-> 0, no |-> 0, ex |-> 0]

Plain(line, op) == Step(line, op, "", "none", 0, "")

Strict(line, op, tgt) == Step(line, op, tgt, "strict", 0, "")

First(line, op, tgt) == Step(line, op, tgt, "first", 0, "")

Last(line, op, tgt) == Step(line, op, tgt, "last", 0, "")

Nth(line, op, tgt, k) == Step(line, op, tgt, "nth", k, "")

Shot(line, path) == Step(line, "shot", "", "none", 0, path)

Say(line, msg) == Step(line, "print", msg, "none", 0, "")

(* verify_settings as it would be without the return of line 19 *)
verify_settings_no_return ==
  << Plain(9, "goto"),
     Plain(10, "idle"),
     Plain(11, "sleep"),
     [Last(15, "probe", ".fa-gear, .fa-cog") EXCEPT !.no = 6],
     Last(16, "click", ".fa-gear, .fa-cog"),
     Plain(21, "sleep"),
     [First(25, "probe", "text:TeX Engine") EXCEPT !.no = 10],
     First(26, "click", "text:TeX Engine"),
     Plain(27, "sleep"),
     [First(31, "probe", "text:Editor") EXCEPT !.no = 13],
     First(32, "click", "text:Editor"),
     Plain(33, "sleep"),
     [First(37, "probe", "role:textbox:Font Family") EXCEPT !.no = 16],
     First(38, "click", "role:textbox:Font Family"),
     Plain(39, "sleep"),
     Shot(41, "verification_final.png"),
     Say(42, "Verification Complete") >>

(* src/verify_settings.py, body of the try block *)
verify_settings ==
  << Plain(9, "goto"),
     Plain(10, "idle"),
     Plain(11, "sleep"),
     [Last(15, "probe", ".fa-gear, .fa-cog") EXCEPT !.no = -1],
     Last(16, "click", ".fa-gear, .fa-cog"),
     Plain(21, "sleep"),
     [First(25, "probe", "text:TeX Engine") EXCEPT !.no = 10],
     First(26, "click", "text:TeX Engine"),
     Plain(27, "sleep"),
     [First(31, "probe", "text:Editor") EXCEPT !.no = 13],
     First(32, "click", "text:Editor"),
     Plain(33, "sleep"),
     [First(37, "probe", "role:textbox:Font Family") EXCEPT !.no = 16],
     First(38, "click", "role:textbox:Font Family"),
     Plain(39, "sleep"),
     Shot(41, "verification_final.png"),
     Say(42, "Verification Complete") >>

(* src/verification/verify_preamble.py *)
packages_to_check ==
  << "Siunitx", "Multirow", "Tabularx", "Multicol", "Titlesec",
     "Microtype", "Csquotes", "Cleveref", "Listings", "Todonotes" >>

PreambleHead ==
  << [Plain(11, "goto") EXCEPT !.ex = -1],
     Plain(17, "sleep"),
     [Strict(21, "click", "label:Wizards") EXCEPT !.ex = 4, !.ok = 5],
     Nth(24, "click", ".mantine-Stack-root > .mantine-ActionIcon-root", 3),
     Plain(26, "sleep"),
     Strict(30, "click", "text:Preamble Wizard"),
     Plain(33, "sleep"),
     Strict(37, "click", "text:Packages"),
     Plain(38, "sleep"),
     Strict(41, "probe", "text:Mathematics & Science") >>

(* PreambleLoop as it would be if check() were not guarded by the          *)
(* is_visible() answer                                                     *)
PreambleLoopUnguarded ==
  [k \in 1..(2 * Len(packages_to_check)) |->
     LET pkg == packages_to_check[(k + 1) \div 2]
     IN  IF k % 2 = 1
         THEN Strict(49, "probe", pkg)
         ELSE Strict(52, "check", pkg)]

(* the for loop of lines 48-54, unrolled: two instructions per package *)
PreambleLoop ==
  [k \in 1..(2 * Len(packages_to_check)) |->
     LET pkg == packages_to_check[(k + 1) \div 2]
         at  == Len(PreambleHead) + k
     IN  IF k % 2 = 1
         THEN [Strict(49, "probe", pkg) EXCEPT !.no = at + 2]
         ELSE Strict(52, "check", pkg)]

(* PreambleTail as it would be with the browser closed before the final    *)
(* screenshot                                                              *)
PreambleTailCloseFirst ==
  LET base == Len(PreambleHead) + 2 * Len(packages_to_check)
  IN  << Strict(59, "click", "role:button:Code"),
         Plain(60, "sleep"),
         [Strict(70, "text", "code") EXCEPT !.ex = base + 4, !.ok = base + 5],
         Strict(73, "text", "pre"),
         Plain(82, "close"),
         Shot(80, "verification/preamble_wizard.png") >>

PreambleTail ==
  LET base == Len(PreambleHead) + 2 * Len(packages_to_check)
  IN  << Strict(59, "click", "role:button:Code"),
         Plain(60, "sleep"),
         [Strict(70, "text", "code") EXCEPT !.ex = base + 4, !.ok = base + 5],
         Strict(73, "text", "pre"),
         Shot(80, "verification/preamble_wizard.png"),
         Plain(82, "close") >>

verify_preamble == PreambleHead \o PreambleLoop \o PreambleTail

(* src/verification/verify_icons.py *)
verify_icons ==
  << Plain(9, "goto"),
     Plain(11, "sleep"),
     Shot(18, "verification/app_screenshot.png"),
     Say(19, "Screenshot taken") >>

(* src/verification/verify_table.py *)
verify_table ==
  << Plain(11, "goto"),
     Step(14, "waitsel", "text=Files", "none", 0, ""),
     Shot(24, "verification/app_loaded.png"),
     Say(25, "Screenshot saved to verification/app_loaded.png") >>

(* verify_responsive_toolbar as it would be without the wait between the  *)
(* resize and the second screenshot                                        *)
verify_responsive_toolbar_unsettled ==
  << Plain(14, "goto"),
     Plain(17, "idle"),
     First(20, "expect", "text:Test.tex"),
     Plain(23, "sleep"),
     Shot(31, "verification/responsive_toolbar_small.png"),
     Say(32, "Screenshot saved to verification/responsive_toolbar_small.png"),
     Step(39, "resize", "", "none", 1280, ""),
     Shot(41, "verification/responsive_toolbar_large.png"),
     Say(42, "Screenshot saved to verification/responsive_toolbar_large.png") >>

(* src/verification/verify_responsive_toolbar.py *)
verify_responsive_toolbar ==
  << Plain(14, "goto"),
     Plain(17, "idle"),
     First(20, "expect", "text:Test.tex"),
     Plain(23, "sleep"),
     Shot(31, "verification/responsive_toolbar_small.png"),
     Say(32, "Screenshot saved to verification/responsive_toolbar_small.png"),
     Step(39, "resize", "", "none", 1280, ""),
     Plain(40, "sleep"),
     Shot(41, "verification/responsive_toolbar_large.png"),
     Say(42, "Screenshot saved to verification/responsive_toolbar_large.png") >>

(* src/verification/verify_changes.py *)
verify_changes ==
  << Plain(18, "goto"),
     Plain(19, "idle"),
     Plain(20, "sleep"),
     Strict(25, "click", "text=Start Page"),
     Strict(28, "expect", ".mantine-Menu-dropdown"),
     Strict(29, "expect", ".mantine-Menu-dropdown"),
     Shot(31, "verification/1_tab_context_menu.png"),
     Say(32, "Tab Context Menu verified."),
     Strict(33, "click", "body"),
     Strict(91, "click", "button.mantine-ActionIcon-root:wand-magic-sparkles"),
     Plain(92, "sleep"),
     Nth(113, "click", ".mantine-Stack-root > button", 1),
     Plain(114, "sleep"),
     Strict(116, "expect", "text=OUTLINE"),
     Shot(118, "verification/2_outline_view.png"),
     Say(119, "Outline View Verified."),
     Nth(123, "click", ".mantine-Stack-root > button", 0),
     Plain(124, "sleep"),
     First(128, "expect", "div.mantine-Stack-root p.mantine-Text-root:EXPLORER"),
     Shot(130, "verification/3_files_view.png"),
     Say(131, "Files View Verified.") >>

(* src/verification/verify_toolbar.py *)
verify_toolbar ==
  << Plain(14, "goto"),
     Plain(17, "idle"),
     Strict(31, "expect", "text:Start Page"),
     Shot(42, "verification/start_page.png"),
     Strict(57, "click", "text:File"),
     Plain(93, "wheel"),
     Strict(102, "click", "text:File"),
     Plain(104, "sleep"),
     [Strict(106, "probe", "text:New File") EXCEPT !.no = 11],
     Strict(107, "click", "text:New File"),
     First(148, "expect", "text:Test.tex"),
     Strict(159, "expect", "text:H1"),
     Shot(162, "verification/editor_toolbar.png"),
     Say(163, "Screenshot saved to verification/editor_toolbar.png") >>

Prog(s) ==
  CASE s = "verify_settings" -> verify_settings
    [] s = "verify_preamble" -> verify_preamble
    [] s = "verify_icons" -> verify_icons
    [] s = "verify_table" -> verify_table
    [] s = "verify_responsive_toolbar" -> verify_responsive_toolbar
    [] s = "verify_changes" -> verify_changes
    [] s = "verify_toolbar" -> verify_toolbar

(***************************************************************************)
(* What surrounds the body in each function: the except clause (catch),    *)
(* the screenshot it takes (errshot, "" for none), whether it re-raises,   *)
(* whether a finally clause closes the browser, where os.makedirs is       *)
(* ("module": at import, "main": in the __main__ block, "none"), and the   *)
(* viewport width the page is created with (1280 is also the default).     *)
(***************************************************************************)
Frame(s) ==
  CASE s = "verify_settings" ->
         [catch |-> TRUE, errshot |-> "", reraise |-> FALSE, finally |-> TRUE,
          makedirs |-> "none", width |-> 1280]
    [] s = "verify_preamble" ->
         [catch |-> FALSE, errshot |-> "", reraise |-> FALSE, finally |-> FALSE,
          makedirs |-> "none", width |-> 1280]
    [] s = "verify_icons" ->
         [catch |-> TRUE, errshot |-> "", reraise |-> FALSE, finally |-> TRUE,
          makedirs |-> "none", width |-> 1280]
    [] s = "verify_table" ->
         [catch |-> TRUE, errshot |-> "verification/error.png", reraise |-> FALSE,
          finally |-> TRUE, makedirs |-> "none", width |-> 1280]
    [] s = "verify_responsive_toolbar" ->
         [catch |-> TRUE, errshot |-> "verification/error_responsive.png",
          reraise |-> FALSE, finally |-> TRUE, makedirs |-> "main", width |-> 600]
    [] s = "verify_changes" ->
         [catch |-> TRUE, errshot |-> "", reraise |-> TRUE, finally |-> TRUE,
          makedirs |-> "module", width |-> 1280]
    [] s = "verify_toolbar" ->
         [catch |-> TRUE, errshot |-> "verification/error.png", reraise |-> FALSE,
          finally |-> TRUE, makedirs |-> "main", width |-> 1280]

(***************************************************************************)
(* Playwright's answers.                                                   *)
(***************************************************************************)

(* Number of elements a locator denotes when its selector matches base     *)
(* elements: .first / .last / .nth(k) narrow the match to at most one.     *)
Resolve(base, pick, idx) ==
  CASE pick = "strict" -> base
    [] pick = "first"  -> IF base >= 1 THEN 1 ELSE 0
    [] pick = "last"   -> IF base >= 1 THEN 1 ELSE 0
    [] pick = "nth"    -> IF base >= idx + 1 THEN 1 ELSE 0
    [] OTHER           -> 0

(* Outcome as it would be if locator calls were not strict: a call on a    *)
(* locator denoting several elements acts on one of them.                  *)
OutcomeLoose(op, n, vis) ==
  CASE op = "probe" -> IF n >= 1 /\ vis THEN "yes" ELSE "no"
    [] op = "text"  -> IF n >= 1 THEN "ok" ELSE "raise"
    [] OTHER        -> IF n >= 1 /\ vis THEN "ok" ELSE "raise"

(* Result of a locator call on a locator denoting n elements of which the  *)
(* one acted on is visible/actionable (vis): a call on several elements    *)
(* raises the strict-mode error, a call on none or on a non-actionable     *)
(* element raises the timeout error; is_visible() answers False instead.   *)
Outcome(op, n, vis) ==
  CASE op = "probe" -> IF n > 1 THEN "raise" ELSE IF n = 1 /\ vis THEN "yes" ELSE "no"
    [] op = "text"  -> IF n = 1 THEN "ok" ELSE "raise"
    [] OTHER        -> IF n = 1 /\ vis THEN "ok" ELSE "raise"

LookupOps == {"click", "check", "expect", "text", "probe"}

(* calls that wait: for network idle, for a selector, for a fixed time *)
WaitOps == {"idle", "waitsel", "sleep"}

(* instruction i of script s is in the package loop of verify_preamble *)
InLoop(s, i) ==
  /\ s = "verify_preamble"
  /\ i > Len(PreambleHead)
  /\ i <= Len(PreambleHead) + Len(PreambleLoop)

(* page calls that touch the rendered page *)
PageOps == LookupOps \cup {"shot"}

(***************************************************************************)
(* Control flow of the function around one instruction.                    *)
(***************************************************************************)

(* where the function goes when it leaves the body without an exception    *)
(* in flight: through the finally clause if it has one                     *)
Leave(s) == IF Frame(s).finally THEN "finally" ELSE "exit"

(* AfterRaise as it would be if every call swallowed its exception and     *)
(* the function went on with the next statement.                           *)
AfterRaiseResume(s, i) ==
  IF i < Len(Prog(s)) THEN [pc |-> "body", ip |-> i + 1, exc |-> "none"]
  ELSE [pc |-> Leave(s), ip |-> i, exc |-> "none"]

(* [pc, ip, exc] after instruction i of script s raised *)
AfterRaise(s, i) ==
  LET ex == Prog(s)[i].ex
  IN  IF ex > 0 THEN [pc |-> "body", ip |-> ex, exc |-> "none"]
      ELSE IF ex = -1 THEN [pc |-> Leave(s), ip |-> i, exc |-> "none"]
      ELSE IF Frame(s).catch THEN [pc |-> "handler", ip |-> i, exc |-> "step"]
      ELSE [pc |-> Leave(s), ip |-> i, exc |-> "step"]

(* [pc, ip, exc] after instruction i of script s went on to instruction k *)
Goto(s, k) ==
  IF k > Len(Prog(s)) THEN [pc |-> Leave(s), ip |-> Len(Prog(s)), exc |-> "none"]
  ELSE [pc |-> "body", ip |-> k, exc |-> "none"]

(* [pc, ip, exc] after instruction i of script s ended with result res *)
After(s, i, res) ==
  LET ins == Prog(s)[i]
  IN  CASE res = "raise" -> AfterRaise(s, i)
        [] res = "no" -> IF ins.no = -1 THEN [pc |-> Leave(s), ip |-> i, exc |-> "none"]
                         ELSE IF ins.no = 0 THEN Goto(s, i + 1)
                         ELSE Goto(s, ins.no)
        [] OTHER -> IF ins.ok = 0 THEN Goto(s, i + 1) ELSE Goto(s, ins.ok)

(* instruction i belongs to a locator fallback chain: it is a strategy     *)
(* with a local except, or the body of such an except                      *)
ChainStart(s, i) == Prog(s)[i].ex > 0

InChain(s, i) == ChainStart(s, i) \/ (i > 1 /\ Prog(s)[i - 1].ex = i)

NoOp == [ip |-> 0, op |-> "none", base |-> 0, n |-> 0, res |-> "none", nav |-> "none"]

(* history of a run before its first statement *)
NoHist == [failedAt |-> 0, raised |-> FALSE, absent |-> FALSE, waits |-> 0,
           asserts |-> {}, examined |-> << >>, checked |-> 0]

TypeOK ==
  /\ script \in Scripts
  /\ mode \in {"program", "call"}
  /\ pc \in {"start", "launch", "newpage", "body", "handler", "finally", "exit", "done",
            "chain"}
  /\ ip \in 0..Len(Prog(script))
  /\ browser \in {"none", "open", "closed"}
  /\ pw \in {"none", "running", "stopped"}
  /\ exc \in {"none", "launch", "newpage", "step", "secondary"}
  /\ exitStatus \in {-1, 0, 1}
  /\ nav \in {"none", "loaded", "settled"}
  /\ viewport \in {0, 600, 1280}
  /\ dir \in BOOLEAN
  /\ failShots \in 0..1
  /\ shotFailed \in BOOLEAN

Init ==
  /\ script \in Scripts
  /\ mode \in {"program", "call"}
  /\ dir \in BOOLEAN
  /\ pc = "start"
  /\ ip = 0
  /\ browser = "none"
  /\ pw = "none"
  /\ exc = "none"
  /\ exitStatus = -1
  /\ nav = "none"
  /\ viewport = 0
  /\ files = {}
  /\ printed = {}
  /\ hist = NoHist
  /\ last = NoOp
  /\ tried = << >>
  /\ failShots = 0
  /\ shotFailed = FALSE
  /\ ran = {}
  /\ writers = {}
  /\ strats = << >>
  /\ resolved = << >>

(* import of the module, the __main__ block, entry of sync_playwright() *)
Start ==
  /\ pc = "start"
  /\ dir' = (dir \/ Frame(script).makedirs = "module"
                 \/ (Frame(script).makedirs = "main" /\ mode = "program"))
  /\ pw' = "running"
  /\ pc' = "launch"
  /\ UNCHANGED <<ran, writers, strats, resolved>>
  /\ UNCHANGED <<script, mode, ip, browser, exc, exitStatus, nav, viewport,
                 files, printed, hist, last, tried, failShots, shotFailed>>

(* p.chromium.launch(headless=True): outside every try block *)
Launch ==
  /\ pc = "launch"
  /\ \/ /\ browser' = "open"
        /\ pc' = "newpage"
        /\ exc' = exc
     \/ /\ browser' = browser
        /\ pc' = "exit"
        /\ exc' = "launch"
  /\ UNCHANGED <<ran, writers, strats, resolved>>
  /\ UNCHANGED <<script, mode, ip, pw, exitStatus, nav, viewport, dir,
                 files, printed, hist, last, tried, failShots, shotFailed>>

(* browser.new_context(...) / new_page(): outside every try block *)
NewPage ==
  /\ pc = "newpage"
  /\ \/ /\ viewport' = Frame(script).width
        /\ pc' = "body"
        /\ ip' = 1
        /\ exc' = exc
     \/ /\ viewport' = viewport
        /\ pc' = "exit"
        /\ ip' = ip
        /\ exc' = "newpage"
  /\ UNCHANGED <<ran, writers, strats, resolved>>
  /\ UNCHANGED <<script, mode, browser, pw, exitStatus, nav, dir,
                 files, printed, hist, last, tried, failShots, shotFailed>>

(* the effect every body instruction has on the control state and history *)
Ran(res, rec) ==
  LET nx == After(script, ip, res)
  IN  /\ pc' = nx.pc
      /\ ip' = nx.ip
      /\ exc' = nx.exc
      /\ hist' = LET ins == Prog(script)[ip]
                 IN  [failedAt |-> IF res = "raise" /\ ins.ex <= 0
                                   THEN ip ELSE hist.failedAt,
                      raised   |-> (hist.raised \/ res = "raise"),
                      absent   |-> (hist.absent \/ res = "no"),
                      waits    |-> IF ins.op = "resize" THEN 0
                                   ELSE IF ins.op \in WaitOps /\ res = "ok"
                                   THEN hist.waits + 1 ELSE hist.waits,
                      asserts  |-> IF ins.op = "expect" /\ res = "ok"
                                   THEN hist.asserts \cup {<<ins.tgt, viewport>>}
                                   ELSE hist.asserts,
                      examined |-> IF InLoop(script, ip) /\ ins.op = "probe"
                                   THEN Append(hist.examined, ins.tgt)
                                   ELSE hist.examined,
                      checked  |-> IF ins.op = "check" /\ res = "ok"
                                   THEN hist.checked + 1 ELSE hist.checked]
      /\ last' = rec
      /\ tried' = LET t == [ip |-> ip, n |-> rec.n, res |-> res]
                  IN  IF ChainStart(script, ip) THEN << t >>
                      ELSE IF InChain(script, ip) THEN Append(tried, t)
                      ELSE << >>

At(op) == pc = "body" /\ Prog(script)[ip].op = op

Rec(res) == [NoOp EXCEPT !.ip = ip, !.op = Prog(script)[ip].op, !.res = res, !.nav = nav]

(* page.goto(url) *)
Navigate ==
  /\ At("goto")
  /\ \E res \in {"ok", "raise"} :
       /\ nav' = IF res = "ok" THEN "loaded" ELSE nav
       /\ Ran(res, Rec(res))
  /\ UNCHANGED <<ran, writers, strats, resolved>>
  /\ UNCHANGED <<script, mode, browser, pw, exitStatus, viewport, dir,
                 files, printed, failShots, shotFailed>>

(* page.wait_for_load_state("networkidle"), page.wait_for_selector(...) *)
Settle ==
  /\ At("idle") \/ At("waitsel")
  /\ \E res \in {"ok", "raise"} :
       /\ nav' = IF res = "ok" /\ nav = "loaded" THEN "settled" ELSE nav
       /\ Ran(res, Rec(res))
  /\ UNCHANGED <<ran, writers, strats, resolved>>
  /\ UNCHANGED <<script, mode, browser, pw, exitStatus, viewport, dir,
                 files, printed, failShots, shotFailed>>

(* page.wait_for_timeout(ms), time.sleep(s), page.mouse.wheel(dx, dy) *)
Pause ==
  /\ At("sleep") \/ At("wheel")
  /\ Ran("ok", Rec("ok"))
  /\ UNCHANGED <<ran, writers, strats, resolved>>
  /\ UNCHANGED <<script, mode, browser, pw, exitStatus, nav, viewport, dir,
                 files, printed, failShots, shotFailed>>

(* page.set_viewport_size({"width": w, ...}) *)
Resize ==
  /\ At("resize")
  /\ viewport' = Prog(script)[ip].idx
  /\ Ran("ok", Rec("ok"))
  /\ UNCHANGED <<ran, writers, strats, resolved>>
  /\ UNCHANGED <<script, mode, browser, pw, exitStatus, nav, dir,
                 files, printed, failShots, shotFailed>>

(* locator.click(), .check(), .text_content(), .is_visible(), expect(locator) *)
Lookup ==
  /\ pc = "body"
  /\ Prog(script)[ip].op \in LookupOps
  /\ \E base \in 0..MaxMatch, vis \in BOOLEAN :
       LET ins == Prog(script)[ip]
           n   == Resolve(base, ins.pick, ins.idx)
           res == Outcome(ins.op, n, vis)
       IN  Ran(res, [Rec(res) EXCEPT !.base = base, !.n = n])
  /\ UNCHANGED <<ran, writers, strats, resolved>>
  /\ UNCHANGED <<script, mode, browser, pw, exitStatus, nav, viewport, dir,
                 files, printed, failShots, shotFailed>>

(* page.screenshot(path=...) in the body: Playwright creates the parent    *)
(* directory of path and writes the file, or raises                        *)
Screenshot ==
  /\ At("shot")
  /\ \E res \in {"ok", "raise"} :
       /\ files' = IF res = "ok" THEN files \cup {Prog(script)[ip].path} ELSE files
       /\ writers' = IF res = "ok" THEN writers \cup {<<Prog(script)[ip].path, script>>}
                     ELSE writers
       /\ dir' = IF res = "ok" /\ Prog(script)[ip].path # "verification_final.png"
                 THEN TRUE ELSE dir
       /\ Ran(res, Rec(res))
  /\ UNCHANGED <<ran, strats, resolved>>
  /\ UNCHANGED <<script, mode, browser, pw, exitStatus, nav, viewport,
                 printed, failShots, shotFailed>>

(* print(...) of a result message *)
PrintMsg ==
  /\ At("print")
  /\ printed' = printed \cup {Prog(script)[ip].tgt}
  /\ Ran("ok", Rec("ok"))
  /\ UNCHANGED <<ran, writers, strats, resolved>>
  /\ UNCHANGED <<script, mode, browser, pw, exitStatus, nav, viewport, dir,
                 files, failShots, shotFailed>>

(* browser.close() as the last statement of the body (verify_preamble) *)
CloseInBody ==
  /\ At("close")
  /\ browser' = "closed"
  /\ Ran("ok", Rec("ok"))
  /\ UNCHANGED <<ran, writers, strats, resolved>>
  /\ UNCHANGED <<script, mode, pw, exitStatus, nav, viewport, dir,
                 files, printed, failShots, shotFailed>>

(* except Exception as e: print(f"Error: {e}"), then nothing or raise e *)
HandlerPlain ==
  /\ pc = "handler"
  /\ Frame(script).errshot = ""
  /\ printed' = printed \cup {"Error"}
  /\ exc' = IF Frame(script).reraise THEN exc ELSE "none"
  /\ pc' = "finally"
  /\ UNCHANGED <<ran, writers, strats, resolved>>
  /\ UNCHANGED <<script, mode, ip, browser, pw, exitStatus, nav, viewport, dir,
                 files, hist, last, tried, failShots, shotFailed>>

(* except Exception as e: print(f"Error: {e}"); page.screenshot(path=...)  *)
HandlerShot ==
  /\ pc = "handler"
  /\ Frame(script).errshot # ""
  /\ printed' = printed \cup {"Error"}
  /\ failShots' = failShots + 1
  /\ \/ /\ files' = files \cup {Frame(script).errshot}
        /\ writers' = writers \cup {<<Frame(script).errshot, script>>}
        /\ dir' = TRUE
        /\ exc' = "none"
        /\ shotFailed' = shotFailed
     \/ /\ files' = files
        /\ writers' = writers
        /\ dir' = dir
        /\ exc' = "secondary"
        /\ shotFailed' = TRUE
  /\ pc' = "finally"
  /\ UNCHANGED <<ran, strats, resolved>>
  /\ UNCHANGED <<script, mode, ip, browser, pw, exitStatus, nav, viewport,
                 hist, last, tried>>

(* finally: browser.close() *)
Finally ==
  /\ pc = "finally"
  /\ browser' = "closed"
  /\ pc' = "exit"
  /\ UNCHANGED <<ran, writers, strats, resolved>>
  /\ UNCHANGED <<script, mode, ip, pw, exc, exitStatus, nav, viewport, dir,
                 files, printed, hist, last, tried, failShots, shotFailed>>

(* the function and the with block are left; an exception still in flight  *)
(* ends the interpreter with status 1, a normal return with status 0       *)
Exit ==
  /\ pc = "exit"
  /\ pw' = "stopped"
  /\ exitStatus' = IF exc = "none" THEN 0 ELSE 1
  /\ pc' = "done"
  /\ UNCHANGED <<ran, writers, strats, resolved>>
  /\ UNCHANGED <<script, mode, ip, browser, exc, nav, viewport, dir,
                 files, printed, hist, last, tried, failShots, shotFailed>>

Next ==
  \/ Start
  \/ Launch
  \/ NewPage
  \/ Navigate
  \/ Settle
  \/ Pause
  \/ Resize
  \/ Lookup
  \/ Screenshot
  \/ PrintMsg
  \/ CloseInBody
  \/ HandlerPlain
  \/ HandlerShot
  \/ Finally
  \/ Exit

Spec == Init /\ [][Next]_vars

(* One script has ended and another one, not run yet, is started on the    *)
(* same working directory: the files written so far stay, everything else  *)
(* belongs to the new process.                                             *)
NextScript ==
  /\ pc = "done"
  /\ Cardinality(ran) + 1 < MaxRuns
  /\ \E s \in Scripts \ (ran \cup {script}), m \in {"program", "call"} :
       /\ script' = s
       /\ mode' = m
  /\ ran' = ran \cup {script}
  /\ pc' = "start"
  /\ ip' = 0
  /\ browser' = "none"
  /\ pw' = "none"
  /\ exc' = "none"
  /\ exitStatus' = -1
  /\ nav' = "none"
  /\ viewport' = 0
  /\ printed' = {}
  /\ hist' = NoHist
  /\ last' = NoOp
  /\ tried' = << >>
  /\ failShots' = 0
  /\ shotFailed' = FALSE
  /\ UNCHANGED <<dir, files, writers, strats, resolved>>

RunNext == Next \/ NextScript

(* the scripts of the repository run one after another, in any order *)
RunSpec == Init /\ [][RunNext]_vars

(***************************************************************************)
(* The fallback chain on its own: try: first.op() / except: second.op().   *)
(***************************************************************************)

(* the chain as it would be without its except clause *)
TryChainFirstOnly(op, ss) ==
  IF Outcome(op, ss[1].n, ss[1].vis) = "ok" THEN ss[1].el ELSE "raise"

(* element the chain acts on for the strategies ss in declared order, each *)
(* denoting n elements (the one acted on visible or not), or "raise"       *)
TryChain(op, ss) ==
  IF Outcome(op, ss[1].n, ss[1].vis) = "ok" THEN ss[1].el
  ELSE IF Outcome(op, ss[2].n, ss[2].vis) = "ok" THEN ss[2].el
  ELSE "raise"

(* the calls the two chains of verify_preamble make *)
ChainOps == {"click", "text"}

InitChain ==
  /\ script = "verify_preamble"
  /\ mode = "call"
  /\ dir = FALSE
  /\ pc = "chain"
  /\ ip = 0
  /\ browser = "none"
  /\ pw = "none"
  /\ exc = "none"
  /\ exitStatus = -1
  /\ nav = "none"
  /\ viewport = 0
  /\ files = {}
  /\ printed = {}
  /\ hist = NoHist
  /\ last = NoOp
  /\ tried = << >>
  /\ failShots = 0
  /\ shotFailed = FALSE
  /\ ran = {}
  /\ writers = {}
  /\ \E op \in ChainOps, na, nb \in 0..MaxMatch, va, vb \in BOOLEAN :
       strats = [op |-> op, a |-> [n |-> na, vis |-> va, el |-> "a"],
                            b |-> [n |-> nb, vis |-> vb, el |-> "b"]]
  /\ resolved = [declared |-> "none", swapped |-> "none"]

(* the chain with strategy a declared first, as in the source *)
ResolveDeclared ==
  /\ pc = "chain"
  /\ resolved.declared = "none"
  /\ resolved' = [resolved EXCEPT
                    !.declared = TryChain(strats.op, <<strats.a, strats.b>>)]
  /\ UNCHANGED <<script, mode, pc, ip, browser, pw, exc, exitStatus, nav, viewport,
                 dir, files, printed, hist, last, tried, failShots, shotFailed,
                 ran, writers, strats>>

(* the same chain with the two strategies declared the other way round *)
ResolveSwapped ==
  /\ pc = "chain"
  /\ resolved.swapped = "none"
  /\ resolved' = [resolved EXCEPT
                    !.swapped = TryChain(strats.op, <<strats.b, strats.a>>)]
  /\ UNCHANGED <<script, mode, pc, ip, browser, pw, exc, exitStatus, nav, viewport,
                 dir, files, printed, hist, last, tried, failShots, shotFailed,
                 ran, writers, strats>>

ChainNext == ResolveDeclared \/ ResolveSwapped

ChainSpec == InitChain /\ [][ChainNext]_vars

(* The interpreter runs the function to its end: every Playwright call     *)
(* returns or raises within its timeout.                                   *)
FairSpec == Init /\ [][Next]_vars /\ WF_vars(Next)

(***************************************************************************)
(* Properties.                                                             *)
(***************************************************************************)

(* the function has ended after its body was entered *)
Ended == pc = "done" /\ ip >= 1

(* C1: a launched browser session is closed by browser.close on every exit *)
(* path of the script function (normal completion, early return, an        *)
(* exception raised by a step).                                            *)
C1_ClosedOnEveryExit == Ended => browser = "closed"

(* C2: the process ends with exit status 0 only if every step succeeded:   *)
(* no step raised an error and no check found its element absent.          *)
C2_ExitZeroOnlyIfAllPassed ==
  (pc = "done" /\ exitStatus = 0) => (~hist.raised /\ ~hist.absent)

(* a body instruction runs in this step *)
Runs == last' # last

(* steps run in written order: the next instruction run is the following   *)
(* one, unless an is_visible() answer of False skipped the guarded         *)
(* statements or a strategy that succeeded skipped its except body         *)
InOrder ==
  Runs => /\ last'.ip > last.ip
          /\ (last'.ip > last.ip + 1) =>
               \/ last.res = "no"
               \/ (last.res = "ok" /\ Prog(script)[last.ip].ex > 0)

(* C3 as stated: steps run in written order, and once a step fails (an     *)
(* action raises, or a check finds its element not visible) no remaining   *)
(* step of the script is run.                                              *)
C3_AnyFailureEndsBody ==
  [][InOrder /\ (last.res \in {"raise", "no"} => ~Runs)]_vars

(* C3 amended: steps run in written order, and once a step raises an error *)
(* that no except clause local to that step catches, no remaining step of  *)
(* the script is run; an is_visible() answer of False and an exception     *)
(* caught by a local fallback do not end the script.                       *)
C3_UncaughtRaiseEndsBody ==
  [][/\ InOrder
     /\ (hist.failedAt # 0 => ~Runs /\ last.ip = hist.failedAt /\ last.res = "raise")
     /\ (Runs /\ last.res = "raise" => last'.ip = Prog(script)[last.ip].ex)]_vars

(* C3 witness: a script ended by an uncaught error before its last step,   *)
(* after an earlier check had found its element not visible.               *)
C3_Witness ==
  /\ pc = "done"
  /\ hist.failedAt # 0
  /\ hist.failedAt < Len(Prog(script))
  /\ hist.absent

(* C4: whenever a step's error ends the scenario, exactly one failure      *)
(* screenshot is attempted on the open session before the session closes.  *)
C4_OneFailureShotPerAbort ==
  (hist.failedAt # 0 /\ (browser = "closed" \/ pc = "done")) => failShots = 1

(* C5: if the failure screenshot of the error handler fails, no secondary  *)
(* exception leaves the script and teardown still runs.                    *)
C5_FailureShotNeverMasks ==
  (pc = "done" /\ shotFailed) => (exc # "secondary" /\ browser = "closed")

(* C6: a checkpoint screenshot that fails while the session is alive does  *)
(* not end the scenario: the steps after it still run.                     *)
C6_CheckpointShotNotFatal ==
  (last.op = "shot" /\ last.res = "raise") =>
     (browser = "open" => (pc = "body" /\ hist.failedAt = 0))

(* C7: in a fallback chain the strategies are tried in declared order, a   *)
(* later one only after every earlier one failed, and the element acted on *)
(* comes from the first strategy that yields exactly one match.            *)
C7_FirstUniqueStrategyActs ==
  \A k \in DOMAIN tried :
    /\ tried[k].ip = tried[1].ip + (k - 1)
    /\ \A j \in 1..(k - 1) : tried[j].res = "raise"
    /\ tried[k].res = "ok" =>
         (tried[k].n = 1 /\ \A j \in 1..(k - 1) : tried[j].n # 1)

(* C8: a strategy whose selector matches more than one element is never    *)
(* used to pick an element; it is skipped without an error.                *)
C8_AmbiguousStrategyNeverPicks ==
  (last.op \in LookupOps /\ last.base > 1) =>
     (last.res \notin {"ok", "yes"} /\ hist.failedAt # last.ip)

(* every strategy of the chain was tried and none denoted exactly one      *)
(* element                                                                 *)
Exhausted == Len(tried) = 2 /\ \A k \in DOMAIN tried : tried[k].n # 1

(* C9: when every strategy of a fallback chain is absent or ambiguous the  *)
(* lookup ends in a failure after each strategy was tried once: no         *)
(* strategy acts on anything, the error leaves the function, no later step *)
(* runs, and the script comes to its end.                                  *)
C9_ExhaustedChainFails ==
  /\ [](\A k \in DOMAIN tried :
          /\ tried[k].ip = tried[1].ip + (k - 1)
          /\ (tried[k].n # 1 => tried[k].res = "raise"))
  /\ [](Exhausted =>
          /\ pc \in {"exit", "done"}
          /\ exc = "step"
          /\ hist.failedAt = tried[2].ip
          /\ last.ip = tried[2].ip
          /\ (pc = "done" => exitStatus = 1))
  /\ (Exhausted ~> pc = "done")

(* C9 witness: both strategies of a chain were tried, the first ambiguous  *)
(* and the second absent, and the script has ended.                        *)
C9_Witness ==
  /\ Exhausted
  /\ tried[1].n > 1
  /\ tried[2].n = 0
  /\ pc = "done"

(* C10: after a navigation no click, lookup, assertion or screenshot runs  *)
(* before a network-idle wait or an equivalent observable condition has    *)
(* completed.                                                              *)
C10_SettledBeforePageOps ==
  last.op \in PageOps => last.nav = "settled"

(* C11: across the scripts run one after another in any order, no         *)
(* artifact path is written by two different scripts.                      *)
C11_NoPathWrittenByTwoScripts ==
  \A v, w \in writers : v[1] = w[1] => v[2] = w[2]

Responsive == script = "verify_responsive_toolbar"

SmallShot == "verification/responsive_toolbar_small.png"

LargeShot == "verification/responsive_toolbar_large.png"

(* the viewports are probed smallest first, on one session that is neither *)
(* closed nor launched again between them                                  *)
AscendingOnOneSession ==
  /\ (viewport' # viewport => viewport' > viewport)
  /\ (viewport' # viewport /\ viewport # 0 => browser = "open" /\ browser' = "open")
  /\ (browser # "none" => browser' # "none")
  /\ (browser = "closed" => browser' = "closed")

Passed == pc = "done" /\ hist.failedAt = 0 /\ exitStatus = 0 /\ ip = Len(Prog(script))

(* C13: the responsive scenario passes only if two assertions, keyed to    *)
(* their viewports, were evaluated and passed: the overflow "More" control *)
(* visible at width 600 and hidden at width 1280.                          *)
C13_MoreAssertedAtBothViewports ==
  (Responsive /\ Passed /\ LargeShot \in files) =>
     /\ \E a \in hist.asserts : a[2] = 600 /\ a[1] \in {"label:More", "text:More"}
     /\ \E a \in hist.asserts : a[2] = 1280

(* the path lies in the output directory "verification" *)
InOutputDir(path) == path \notin {"", "verification_final.png"}

(* C14: in every script, run as a program or called directly, the output   *)
(* directory has been ensured to exist before the first screenshot is      *)
(* written into it.                                                        *)
C14_DirEnsuredBeforeShot ==
  [][/\ (Runs /\ last'.op = "shot" /\ InOutputDir(Prog(script)[last'.ip].path)) => dir
     /\ (failShots' # failShots /\ InOutputDir(Frame(script).errshot)) => dir]_vars

(* exactly one of the two strategies denotes a single element and the     *)
(* other denotes none or several                                           *)
OneUniqueOtherFails ==
  \/ (strats.a.n = 1 /\ strats.b.n # 1)
  \/ (strats.b.n = 1 /\ strats.a.n # 1)

BothResolved == resolved.declared # "none" /\ resolved.swapped # "none"

(* C15: for a two-strategy chain in which exactly one strategy matches     *)
(* uniquely and the other fails, the element resolved is the same          *)
(* whichever of the two is declared first.                                 *)
C15_OrderIndependent ==
  (pc = "chain" /\ BothResolved /\ OneUniqueOtherFails) =>
     /\ resolved.declared = resolved.swapped
     /\ resolved.declared = "a" => strats.a.n = 1
     /\ resolved.declared = "b" => strats.b.n = 1

(* C15 witness: only the strategy declared second matches uniquely, the    *)
(* first is ambiguous, and both orders resolved to the second's element.   *)
C15_Witness ==
  /\ pc = "chain"
  /\ BothResolved
  /\ strats.a.n > 1
  /\ strats.b.n = 1
  /\ resolved.declared = "b"
  /\ resolved.swapped = "b"

(* C16: in no script, on no path, is an operation performed on the page    *)
(* after browser.close has run: the failure screenshot of an error handler *)
(* runs before the close of the finally clause and nothing follows the     *)
(* close.                                                                  *)
C16_NothingAfterClose ==
  /\ [][browser = "closed" =>
          (~Runs /\ failShots' = failShots /\ files' = files /\ browser' = "closed")]_vars
  /\ [][failShots' # failShots => (browser = "open" /\ browser' = "open")]_vars
  /\ [](browser = "closed" => pc \in {"exit", "done"})

(* C16 witness: an error handler took its failure screenshot and the       *)
(* finally clause then closed the browser.                                 *)
C16_Witness ==
  /\ failShots = 1
  /\ browser = "closed"
  /\ Frame(script).errshot \in files
  /\ pc = "done"

(* C17: a success message is printed only on a path where no earlier step  *)
(* raised an error, and the screenshot it reports was written before it.   *)
C17_MessageOnlyAfterItsShot ==
  /\ [][Runs /\ last'.op = "print" =>
          /\ ~hist.raised
          /\ "Error" \notin printed
          /\ last.op = "shot" /\ last.res = "ok"
          /\ Prog(script)[last.ip].path \in files]_vars
  /\ [](\A i \in 2..Len(Prog(script)) :
          (Prog(script)[i].op = "print" /\ Prog(script)[i].tgt \in printed) =>
             Prog(script)[i - 1].path \in files)

(* C17 witness: verify_changes printed its last message after all three    *)
(* of its screenshots were written.                                        *)
C17_Witness ==
  /\ script = "verify_changes"
  /\ pc = "done"
  /\ "Files View Verified." \in printed
  /\ Cardinality(files) = 3

(* source line of the most recent call of the body (0 before the first) *)
LastLine == IF last.ip = 0 THEN 0 ELSE Prog(script)[last.ip].line

(* verify_settings found the gear icon not visible (line 15) *)
GearAbsent == script = "verify_settings" /\ LastLine = 15 /\ last.res = "no"

(* verify_settings found a later target not visible (lines 25, 31, 37) *)
LaterTargetAbsent ==
  script = "verify_settings" /\ LastLine \in {25, 31, 37} /\ last.res = "no"

(* C18: in verify_settings a gear icon that is not visible stops the       *)
(* script at once (no further click, no screenshot, no "Verification       *)
(* Complete", browser still closed); with the gear icon visible, a later   *)
(* target that is not visible only skips its click and the final           *)
(* screenshot is still taken.                                              *)
C18_GearStopsLaterTargetsSkip ==
  /\ [][GearAbsent => ~Runs /\ failShots' = failShots]_vars
  /\ [](GearAbsent =>
          /\ pc \in {"finally", "exit", "done"}
          /\ files = {}
          /\ printed = {}
          /\ (pc \in {"exit", "done"} => browser = "closed"))
  /\ [](LaterTargetAbsent =>
          /\ pc = "body"
          /\ ip = last.ip + 3
          /\ Prog(script)[ip].op \in {"probe", "shot"})
  /\ [][(LaterTargetAbsent /\ Runs) => last'.op \in {"probe", "shot"}]_vars
  /\ []((script = "verify_settings" /\ pc = "done" /\ ~hist.raised /\ LastLine > 15) =>
          /\ "verification_final.png" \in files
          /\ "Verification Complete" \in printed
          /\ browser = "closed")

(* C18 witness: the gear icon was not visible and the script has ended.    *)
C18_Witness ==
  /\ GearAbsent
  /\ pc = "done"
  /\ browser = "closed"
  /\ exitStatus = 0

(* the other case of C18: all three later targets were not visible and the *)
(* final screenshot was taken                                              *)
C18_SkippedAllThree ==
  /\ script = "verify_settings"
  /\ pc = "done"
  /\ hist.absent
  /\ hist.waits = 3
  /\ "verification_final.png" \in files

Preamble == script = "verify_preamble"

(* s is an initial part of t *)
IsPrefix(s, t) == Len(s) <= Len(t) /\ \A k \in 1..Len(s) : s[k] = t[k]

(* a checkbox is checked only right after it was seen visible, and a       *)
(* checkbox that is not visible is left alone: the next call examines the  *)
(* next package (or leaves the loop) and no check() has been made          *)
CheckOnlyIfSeen ==
  /\ (Runs /\ last'.op = "check") =>
        /\ last.op = "probe" /\ last.res = "yes"
        /\ Prog(script)[last.ip].tgt = Prog(script)[last'.ip].tgt
  /\ (Runs /\ last'.op = "probe") => hist'.checked = hist.checked
  /\ (Runs /\ InLoop(script, last.ip) /\ last.op = "probe" /\ last.res = "no") =>
        /\ last'.ip = last.ip + 2
        /\ last'.op # "check"
        /\ hist'.checked = hist.checked

(* C19 as stated: in verify_preamble every package of the list is examined *)
(* exactly once in list order; a checkbox is checked only if seen visible  *)
(* immediately before; a checkbox that is not visible never prevents the   *)
(* later packages from being examined and leaves the page unchanged.       *)
C19_EveryPackageExamined ==
  /\ [](Preamble => IsPrefix(hist.examined, packages_to_check))
  /\ []((Preamble /\ pc = "done" /\ hist.examined # << >>) =>
          hist.examined = packages_to_check)
  /\ [][Preamble => CheckOnlyIfSeen]_vars

(* C19 amended: the packages are examined in list order, each at most      *)
(* once, and all of them unless is_visible() or check() raises, which ends *)
(* the script at that package; the rest as stated.                         *)
C19_ExaminedInOrderUntilRaise ==
  /\ [](Preamble => IsPrefix(hist.examined, packages_to_check))
  /\ []((Preamble /\ pc = "done" /\ hist.examined # << >>) =>
          \/ hist.examined = packages_to_check
          \/ /\ InLoop(script, hist.failedAt)
             /\ Prog(script)[hist.failedAt].tgt = hist.examined[Len(hist.examined)]
             /\ last.ip = hist.failedAt
             /\ exitStatus = 1)
  /\ []((Preamble /\ last.ip > Len(PreambleHead) + Len(PreambleLoop)) =>
          hist.examined = packages_to_check)
  /\ [][Preamble => CheckOnlyIfSeen]_vars

(* C19 witness: the loop examined all packages, some checkboxes were not   *)
(* visible and some were checked.                                          *)
C19_Witness ==
  /\ Preamble
  /\ pc = "done"
  /\ hist.examined = packages_to_check
  /\ hist.absent
  /\ hist.checked \in 1..(Len(packages_to_check) - 1)
  /\ browser = "closed"

====
